---- MODULE Spec2Model ----
(***************************************************************************)
(* hass_remote_management.py: one HASSRemoteManagement session object, the *)
(* remote host it talks to, the local log file, and the __main__ script.   *)
(*                                                                         *)
(* Encoding of values                                                      *)
(*   path     <<dir, ts, ext>>, ts the run timestamp (0: none in the name) *)
(*   command  <<verb, path, ...>>                                            *)
(*   line     a sequence of characters, "\n" the newline                   *)
(*   a cached_property that was never read holds NotCached                 *)
(***************************************************************************)
EXTENDS Integers, Sequences, FiniteSets

\* ------------------------------------------------------------------ bounds
MaxClock     == 3   \* top-level calls made on one session
MaxStatus    == 2   \* exit statuses 0..MaxStatus
MaxAllow     == 1   \* allowances 0..MaxAllow of a direct _ssh_exec call
MaxTotal     == 2   \* file sizes 0..MaxTotal
MaxCallbacks == 2   \* progress callbacks of one transfer

\* ------------------------------------------------------------- encodings
NotCached == 0      \* functools.cached_property: nothing stored yet
NoAttr    == -1     \* an instance attribute that was never assigned
NoStatus  == -1     \* recv_exit_status() not reached

\* names are sequences of tokens, "@" the separator of the host argument
Hostnames == {<<"hass.local">>}
Usernames == {<<"pi">>}
HostArgs  == {<<"pi", "@", "hass.local">>, <<"hass.local">>,
              <<"pi", "@", "hass", "@", "local">>}

NL == "\n"
\* what a remote command writes on its stdout, as the lines the channel yields
Outputs == {<< >>, << <<"a", NL>> >>, << <<"a", NL>>, <<"b">> >>}

ConfigDir == <<"/home/homeassistant/.homeassistant/", 0, "">>
NoPath    == <<"", 0, "">>
EtcPath   == <<"/etc/", 0, "hostname">>       \* a file the remote host has
GonePath  == <<"/etc/", 0, "missing">>        \* a file it does not have
OutPath   == <<"", 0, "out.bin">>

TarPath(ts)   == <<"/tmp/homeassistant-", ts, ".back.tar">>
Bz2Path(ts)   == <<"/tmp/homeassistant-", ts, ".back.tar.bz2">>
GlobPath(ts)  == <<"/tmp/homeassistant-", ts, ".back.*">>
LocalPath(ts) == <<"homeassistant-", ts, ".back.tar.bz2">>

TarCmd(ts)   == <<"sudo tar cvf", TarPath(ts), ConfigDir>>
Bzip2Cmd(ts) == <<"sudo bzip2", TarPath(ts)>>
RmCmd(ts)    == <<"sudo rm", GlobPath(ts)>>
UptimeCmd    == <<"uptime", NoPath>>
NoCommand    == <<"", NoPath>>

\* ----------------------------------------------------------------- state
VARIABLES
  pc,                 \* where the driving code stands
  caller,             \* who called _scp: "top" or "backup"
  argv,               \* the parsed command line of a __main__ run
  main,               \* what the __main__ run did
  init_exc,           \* what __init__ raised
  hostname, username, \* self._hostname, self._username
  progress_bar,       \* self._progress_bar
  progress_bar_last,  \* self._progress_bar_last
  ssh_client,         \* the cached self._ssh_client (a handle id)
  now_iso8601,        \* the cached self._now_iso8601
  log_file,           \* the file named self._log_file_name
  remote,             \* the paths that exist on the remote host
  foreign,            \* the paths some other user of the remote host made
  local,              \* downloaded files, <<dest, src>>
  clock,              \* datetime.datetime.now()
  connects,           \* calls of SSHClient.connect
  uses,               \* reads of self._ssh_client
  closes,             \* calls of SSHClient.close
  del_connects,       \* calls of SSHClient.connect made by __del__
  result,             \* how the last call ended
  last_call,          \* the _ssh_exec call `result` is the outcome of
  executed,           \* the stripped stdout of every command run so far
  trace,              \* the remote operations of the current backup()
  backup_st,          \* the current backup(): its state and failing step
  xfer,               \* the current transfer
  xfers               \* transfers started on this session

vars == <<pc, caller, argv, main, init_exc, hostname, username, progress_bar,
          progress_bar_last, ssh_client, now_iso8601, log_file, remote,
          foreign, local, clock, connects, uses, closes, del_connects,
          result, last_call, executed, trace, backup_st, xfer, xfers>>

objVars  == <<init_exc, hostname, username>>
barVars  == <<progress_bar, progress_bar_last>>
connVars == <<ssh_client, connects, uses>>
execVars == <<log_file, last_call, executed>>
mainVars == <<argv, main>>
xferVars == <<xfer, xfers, local>>

\* -------------------------------------------------------------- helpers
RECURSIVE Sum(_)
Sum(s) == IF s = << >> THEN 0 ELSE Head(s) + Sum(Tail(s))

IsPrefix(s, t) == Len(s) <= Len(t) /\ SubSeq(t, 1, Len(s)) = s

Last(s) == s[Len(s)]

\* str.rstrip("\n"): every trailing newline goes
RECURSIVE RStripNL(_)
RStripNL(line) ==
  IF line # << >> /\ Last(line) = NL
    THEN RStripNL(SubSeq(line, 1, Len(line) - 1))
    ELSE line

\* the for loop of _ssh_exec: what the lines of `out` add to the file
RECURSIVE WriteLines(_)
WriteLines(out) ==
  IF out = << >> THEN << >> ELSE RStripNL(Head(out)) \o WriteLines(Tail(out))

NoError == [exc |-> "none", command |-> NoCommand, status |-> NoStatus]
Raised(e) == [exc |-> e, command |-> NoCommand, status |-> NoStatus]

NoBar == [state |-> "unset", total |-> 0, n |-> 0]
NoneBar == [state |-> "None", total |-> 0, n |-> 0]
NoXfer == [active |-> FALSE, src |-> NoPath, dest |-> NoPath, total |-> 0,
           cbs |-> << >>, updates |-> << >>, done |-> FALSE]
NoCall == [command |-> NoCommand, allow |-> 0, status |-> NoStatus]
NoArgv == [deploy |-> FALSE, backup |-> FALSE, verbose |-> FALSE, host |-> << >>]
NoMain == [ran |-> FALSE, exc |-> "none", invoked |-> "none", level |-> "INFO"]
NoBackup == [st |-> "none", step |-> 0]

\* ----------------------------------------------------- the session object
\* __init__: two assignments, then the read of the name _None, which the module
\* never binds: NameError, and self._progress_bar is never assigned
__init__(h, u) ==
  [hostname |-> h, username |-> u, progress_bar |-> NoBar, exc |-> "NameError"]

\* cached_property _now_iso8601: the first read stores datetime.now()
_now_iso8601(cache, now) == IF cache # NotCached THEN cache ELSE now

\* _ssh_client as a plain property: every read connects
SshClientUncached(cache, n, connect_ok) ==
  IF connect_ok
    THEN [exc |-> "none", client |-> n + 1, connects |-> n + 1]
    ELSE [exc |-> "SSHException", client |-> NotCached, connects |-> n + 1]

\* cached_property _ssh_client: the first read that returns stores the handle;
\* a connect() that raises stores nothing
_ssh_client(cache, n, connect_ok) ==
  IF cache # NotCached
    THEN [exc |-> "none", client |-> cache, connects |-> n]
    ELSE IF connect_ok
      THEN [exc |-> "none", client |-> n + 1, connects |-> n + 1]
      ELSE [exc |-> "SSHException", client |-> NotCached, connects |-> n + 1]

\* _log_file: open(name, "w+") creates the file or truncates it
_log_file(f) == [exists |-> TRUE, data |-> << >>]

\* line 75 testing against zero, whatever the allowance
ExitStatusNonZero(status, allow) == status > 0

\* the test of line 75
ExitStatusExceeds(status, allow) == status > allow

\* the message of line 76, as the exception carries it
SSHExecException(command, status) ==
  [exc |-> "SSHExecException", command |-> command, status |-> status]

\* ------------------------------------------------------- the remote host
\* the exit statuses a command can end with on a host holding the files fs
RemoteStatuses(cmd, fs) ==
  CASE cmd[1] = "sudo bzip2" ->
         IF cmd[2] \in fs /\ Bz2Path(cmd[2][2]) \notin fs
           THEN 0..MaxStatus ELSE 1..MaxStatus
    [] cmd[1] = "sudo rm" ->
         IF {TarPath(cmd[2][2]), Bz2Path(cmd[2][2])} \cap fs # {}
           THEN 0..MaxStatus ELSE 1..MaxStatus
    [] OTHER -> 0..MaxStatus

\* the files after the command ended with `status`
RemoteExec(cmd, status, fs) ==
  CASE cmd[1] = "sudo tar cvf" /\ status <= 1 -> fs \cup {cmd[2]}
    [] cmd[1] = "sudo bzip2" /\ status = 0 ->
         (fs \ {cmd[2]}) \cup {Bz2Path(cmd[2][2])}
    [] cmd[1] = "sudo rm" /\ status = 0 ->
         fs \ {TarPath(cmd[2][2]), Bz2Path(cmd[2][2])}
    [] OTHER -> fs

\* what the environment decides during one _ssh_exec call
ExecEnvs(cmd) ==
  [connect_ok : BOOLEAN, dispatch_ok : BOOLEAN, out : Outputs,
   status : RemoteStatuses(cmd, remote)]

\* _ssh_exec(command, max_allowed_return_code), `now` the timestamp cache as
\* the caller left it
_ssh_exec(command, allow, now, env) ==
  LET c == _ssh_client(ssh_client, connects, env.connect_ok)
      call == [command |-> command, allow |-> allow, status |-> NoStatus]
      same == [ssh_client |-> c.client, connects |-> c.connects, now |-> now,
               log_file |-> log_file, remote |-> remote, executed |-> executed,
               last_call |-> call, issued |-> FALSE, result |-> Raised(c.exc)]
  IN IF c.exc # "none" THEN same
     ELSE IF ~env.dispatch_ok
       THEN [same EXCEPT !.issued = TRUE, !.result = Raised("SSHException")]
     ELSE
       [same EXCEPT
          !.issued = TRUE,
          !.now = _now_iso8601(now, clock),
          !.log_file = [_log_file(log_file) EXCEPT !.data = @ \o WriteLines(env.out)],
          !.remote = RemoteExec(command, env.status, remote),
          !.executed = executed \o WriteLines(env.out),
          !.last_call = [call EXCEPT !.status = env.status],
          !.result = IF ExitStatusExceeds(env.status, allow)
                       THEN SSHExecException(command, env.status)
                       ELSE NoError]

\* the assignments of one _ssh_exec call
ApplyExec(o) ==
  /\ ssh_client' = o.ssh_client
  /\ connects' = o.connects
  /\ uses' = uses + 1
  /\ now_iso8601' = o.now
  /\ log_file' = o.log_file
  /\ remote' = o.remote
  /\ executed' = o.executed
  /\ last_call' = o.last_call
  /\ result' = o.result

\* ------------------------------------------------------------------ Init
Init ==
  /\ pc = "start"
  /\ caller = "top"
  /\ argv = NoArgv
  /\ main = NoMain
  /\ init_exc = "none"
  /\ hostname = << >>
  /\ username = << >>
  /\ progress_bar = NoBar
  /\ progress_bar_last = NoAttr
  /\ ssh_client = NotCached
  /\ now_iso8601 = NotCached
  /\ log_file = [exists |-> FALSE, data |-> << >>]
  /\ remote = {EtcPath}
  /\ foreign = {}
  /\ local = {}
  /\ clock = 1
  /\ connects = 0
  /\ uses = 0
  /\ closes = 0
  /\ del_connects = 0
  /\ result = NoError
  /\ last_call = NoCall
  /\ executed = << >>
  /\ trace = << >>
  /\ backup_st = NoBackup
  /\ xfer = NoXfer
  /\ xfers = 0

\* ------------------------------------------------------------- operations
\* a caller constructs the session and keeps the object __init__ left behind
Construct ==
  \E h \in Hostnames, u \in Usernames :
    LET o == __init__(h, u) IN
    /\ pc = "start"
    /\ pc' = "idle"
    /\ hostname' = o.hostname
    /\ username' = o.username
    /\ progress_bar' = o.progress_bar
    /\ init_exc' = o.exc
    /\ result' = Raised(o.exc)
    /\ UNCHANGED <<caller, mainVars, progress_bar_last, connVars, now_iso8601,
                   execVars, remote, foreign, clock, closes, del_connects,
                   trace, backup_st, xferVars>>

\* a direct call of _ssh_exec
Run ==
  \E allow \in 0..MaxAllow : \E env \in ExecEnvs(UptimeCmd) :
    /\ pc = "idle"
    /\ clock < MaxClock
    /\ clock' = clock + 1
    /\ ApplyExec(_ssh_exec(UptimeCmd, allow, now_iso8601, env))
    /\ UNCHANGED <<pc, caller, mainVars, objVars, barVars, foreign, closes,
                   del_connects, trace, backup_st, xferVars>>

\* deploy(): one log line
deploy ==
  /\ pc = "idle"
  /\ clock < MaxClock
  /\ clock' = clock + 1
  /\ result' = NoError
  /\ last_call' = NoCall
  /\ UNCHANGED <<pc, caller, mainVars, objVars, barVars, connVars, now_iso8601,
                 log_file, executed, remote, foreign, closes, del_connects, trace,
                 backup_st, xferVars>>

\* __del__: `if self._ssh_client` reads the cached property, which connects when
\* nothing is cached; an SSHClient is truthy, so a returned handle is closed; what
\* the read raises is dropped by the interpreter
__del__ ==
  \E connect_ok \in BOOLEAN :
    LET c == _ssh_client(ssh_client, connects, connect_ok) IN
    /\ pc \in {"idle", "exited"}
    /\ pc' = "dead"
    /\ ssh_client' = c.client
    /\ connects' = c.connects
    /\ uses' = uses + 1
    /\ del_connects' = c.connects - connects
    /\ closes' = IF c.exc = "none" THEN closes + 1 ELSE closes
    /\ UNCHANGED <<caller, mainVars, objVars, barVars, now_iso8601, execVars,
                   remote, foreign, local, clock, result, trace, backup_st,
                   xfer, xfers>>

\* ------------------------------------------------------------- transfers
\* bool(tqdm): a tracker with a total is truthy when the total is positive
Truthy(bar) == bar.state = "tqdm" /\ bar.total > 0

\* _scp_loading_bar(current, total) on the attributes (bar, last)
_scp_loading_bar(bar, last, current, total) ==
  IF bar.state = "unset"
    THEN [exc |-> "AttributeError", bar |-> bar, last |-> last, updates |-> << >>]
    ELSE
      LET bar1 == IF ~Truthy(bar)
                    THEN [state |-> "tqdm", total |-> total, n |-> 0]
                    ELSE bar
          \* getattr(self, "_progress_bar_last", None) is falsy when the
          \* attribute is missing and when it is 0
          offset == IF last # NoAttr /\ last # 0 THEN current - last ELSE current
      IN [exc |-> "none", bar |-> [bar1 EXCEPT !.n = @ + offset],
          last |-> current, updates |-> <<offset>>]

\* line 95, the one statement of _scp after sftp_client.get returned
ScpFinish(bar, last) == [bar |-> NoneBar, last |-> last]

\* what the environment decides when _scp starts
ScpEnvs == [connect_ok : BOOLEAN, sftp_ok : BOOLEAN, total : 0..MaxTotal]

\* _scp(src, dest) up to the first chunk of sftp_client.get
_scp(src, dest, env) ==
  LET c == _ssh_client(ssh_client, connects, env.connect_ok)
      same == [ssh_client |-> c.client, connects |-> c.connects,
               issued |-> FALSE, started |-> FALSE, result |-> Raised(c.exc),
               xfer |-> [NoXfer EXCEPT !.src = src, !.dest = dest]]
  IN IF c.exc # "none" THEN same
     ELSE IF ~env.sftp_ok THEN [same EXCEPT !.result = Raised("SSHException")]
     ELSE IF src \notin remote
       THEN [same EXCEPT !.issued = TRUE, !.result = Raised("IOError")]
     ELSE [same EXCEPT !.issued = TRUE, !.started = TRUE, !.result = NoError,
                       !.xfer.active = TRUE, !.xfer.total = env.total]

ApplyScp(o) ==
  /\ ssh_client' = o.ssh_client
  /\ connects' = o.connects
  /\ uses' = uses + 1
  /\ xfer' = o.xfer
  /\ xfers' = xfers + 1
  /\ last_call' = NoCall
  /\ result' = o.result

\* bytes reported so far by the transfer in flight
Reported == IF xfer.cbs = << >> THEN 0 ELSE Last(xfer.cbs)

\* backup() going on after a step that raised
AfterStepSwallow(res, next) == next

\* where control goes after a step of backup(): on, or out with the exception
AfterStep(res, next) == IF res.exc = "none" THEN next ELSE "idle"

StepState(res, step) ==
  [st |-> IF res.exc = "none" THEN (IF step = 4 THEN "ok" ELSE "running")
          ELSE "raised",
   step |-> step]

\* a direct call of _scp
Fetch ==
  \E src \in {EtcPath, GonePath}, env \in ScpEnvs :
    LET o == _scp(src, OutPath, env) IN
    /\ pc = "idle"
    /\ clock < MaxClock
    /\ clock' = clock + 1
    /\ ApplyScp(o)
    /\ caller' = "top"
    /\ pc' = IF o.started THEN "get" ELSE "idle"
    /\ UNCHANGED <<mainVars, objVars, barVars, now_iso8601, log_file, executed,
                   remote, foreign, local, closes, del_connects, trace,
                   backup_st>>

\* sftp_client.get reports a chunk: the callback runs; what it raises leaves
\* get and _scp
Callback ==
  \E current \in Reported..xfer.total :
    LET o == _scp_loading_bar(progress_bar, progress_bar_last, current,
                              xfer.total) IN
    /\ pc = "get"
    /\ xfer.total > 0
    /\ Len(xfer.cbs) < MaxCallbacks
    /\ progress_bar' = o.bar
    /\ progress_bar_last' = o.last
    /\ xfer' = [xfer EXCEPT !.cbs = Append(@, current),
                            !.updates = @ \o o.updates,
                            !.active = (o.exc = "none")]
    /\ result' = IF o.exc = "none" THEN result ELSE Raised(o.exc)
    /\ pc' = IF o.exc = "none" THEN "get" ELSE "idle"
    /\ backup_st' = IF o.exc # "none" /\ caller = "backup"
                      THEN [st |-> "raised", step |-> 3] ELSE backup_st
    /\ UNCHANGED <<caller, mainVars, objVars, connVars, now_iso8601, execVars,
                   remote, foreign, local, clock, closes, del_connects, trace,
                   xfers>>

\* sftp_client.get returns: every byte was reported; line 95 runs
GetDone ==
  LET f == ScpFinish(progress_bar, progress_bar_last) IN
  /\ pc = "get"
  /\ Reported = xfer.total
  /\ progress_bar' = f.bar
  /\ progress_bar_last' = f.last
  /\ xfer' = [xfer EXCEPT !.active = FALSE, !.done = TRUE]
  /\ local' = local \cup {<<xfer.dest, xfer.src>>}
  /\ result' = NoError
  /\ pc' = IF caller = "backup" THEN "cleanup" ELSE "idle"
  /\ UNCHANGED <<caller, mainVars, objVars, connVars, now_iso8601, execVars,
                 remote, foreign, clock, closes, del_connects, trace,
                 backup_st, xfers>>

\* sftp_client.get raises in the middle of the transfer
GetFail ==
  /\ pc = "get"
  /\ xfer' = [xfer EXCEPT !.active = FALSE]
  /\ result' = Raised("IOError")
  /\ pc' = "idle"
  /\ backup_st' = IF caller = "backup"
                    THEN [st |-> "raised", step |-> 3] ELSE backup_st
  /\ UNCHANGED <<caller, mainVars, objVars, barVars, connVars, now_iso8601,
                 execVars, remote, foreign, local, clock, closes, del_connects,
                 trace, xfers>>

\* ---------------------------------------------------------------- backup
ExecOp(cmd, allow) == [kind |-> "exec", what |-> cmd, allow |-> allow]
GetOp(src, dest) == [kind |-> "get", what |-> <<"sftp get", src, dest>>, allow |-> 0]

\* the four operations backup() is written to issue, for the timestamp ts
BackupOps(ts) ==
  << ExecOp(TarCmd(ts), 1), ExecOp(Bzip2Cmd(ts), 0),
     GetOp(TarPath(ts), LocalPath(ts)), ExecOp(RmCmd(ts), 0) >>

\* one _ssh_exec step of backup(): step i, then on to `next`
BackupExec(i, next) ==
  LET ts == _now_iso8601(now_iso8601, clock)
      op == BackupOps(ts)[i]
  IN \E env \in ExecEnvs(op.what) :
       LET o == _ssh_exec(op.what, op.allow, ts, env) IN
       /\ clock' = clock + 1
       /\ ApplyExec(o)
       /\ trace' = (IF i = 1 THEN << >> ELSE trace)
                     \o (IF o.issued THEN <<op>> ELSE << >>)
       /\ backup_st' = StepState(o.result, i)
       /\ pc' = AfterStep(o.result, next)
       /\ UNCHANGED <<caller, mainVars, objVars, barVars, foreign, closes,
                      del_connects, xferVars>>

\* backup(), lines 98-102
backup ==
  /\ pc = "idle"
  /\ clock < MaxClock
  /\ BackupExec(1, "compress")

\* backup(), line 103
BackupCompress ==
  /\ pc = "compress"
  /\ BackupExec(2, "fetch")

\* backup(), lines 104-107
BackupFetch ==
  LET ts == _now_iso8601(now_iso8601, clock)
      op == BackupOps(ts)[3]
  IN \E env \in ScpEnvs :
       LET o == _scp(op.what[2], op.what[3], env) IN
       /\ pc = "fetch"
       /\ clock' = clock + 1
       /\ ApplyScp(o)
       /\ now_iso8601' = ts
       /\ caller' = "backup"
       /\ trace' = trace \o (IF o.issued THEN <<op>> ELSE << >>)
       /\ backup_st' = StepState(o.result, 3)
       /\ pc' = AfterStep(o.result, "get")
       /\ UNCHANGED <<mainVars, objVars, barVars, log_file, executed, remote,
                      foreign, local, closes, del_connects>>

\* backup(), line 108
BackupCleanup ==
  /\ pc = "cleanup"
  /\ BackupExec(4, "idle")

\* someone else on the remote host leaves a file where backup() will look
RemoteTouch ==
  /\ now_iso8601 # NotCached
  /\ pc \notin {"dead", "exited"}
  /\ foreign = {}
  /\ TarPath(now_iso8601) \notin remote
  /\ remote' = remote \cup {TarPath(now_iso8601)}
  /\ foreign' = {TarPath(now_iso8601)}
  /\ UNCHANGED <<pc, caller, mainVars, objVars, barVars, connVars, now_iso8601,
                 execVars, local, clock, closes, del_connects, result, trace,
                 backup_st, xfer, xfers>>

\* ------------------------------------------------------------- __main__
\* str.split("@") on a sequence of tokens
RECURSIVE Split(_)
Split(s) ==
  IF s = << >> THEN << << >> >>
  ELSE LET rest == Split(Tail(s)) IN
       IF Head(s) = "@" THEN << << >> >> \o rest
       ELSE << <<Head(s)>> \o Head(rest) >> \o Tail(rest)

\* lines 139-143: `"backup" in args` asks the Namespace whether it has the
\* attribute, and a parsed Namespace has both
MainSelect(args) ==
  IF "backup" \in DOMAIN args THEN "backup"
  ELSE IF "deploy" \in DOMAIN args THEN "deploy"
  ELSE "none"

\* the script: parse, split, construct; the call fn() of line 145 stands behind
\* the exception line 137 raises
Main ==
  \E args \in [deploy : BOOLEAN, backup : BOOLEAN, verbose : BOOLEAN,
               host : HostArgs] :
    LET parts == Split(args.host)
        level == IF args.verbose THEN "DEBUG" ELSE "INFO"
        o == __init__(parts[2], parts[1])
    IN
    /\ pc = "start"
    /\ argv' = args
    /\ IF args.deploy = args.backup
         THEN /\ main' = [ran |-> TRUE, exc |-> "SystemExit",
                          invoked |-> "none", level |-> "INFO"]
              /\ pc' = "dead"
              /\ UNCHANGED <<objVars, progress_bar>>
         ELSE IF Len(parts) # 2
           THEN /\ main' = [ran |-> TRUE, exc |-> "ValueError",
                            invoked |-> "none", level |-> level]
                /\ pc' = "dead"
                /\ UNCHANGED <<objVars, progress_bar>>
           ELSE /\ main' = [ran |-> TRUE, exc |-> o.exc,
                            invoked |-> IF o.exc = "none" THEN MainSelect(args)
                                        ELSE "none",
                            level |-> level]
                /\ pc' = "exited"
                /\ hostname' = o.hostname
                /\ username' = o.username
                /\ progress_bar' = o.progress_bar
                /\ init_exc' = o.exc
    /\ UNCHANGED <<caller, progress_bar_last, connVars, now_iso8601, execVars,
                   remote, foreign, clock, closes, del_connects, result,
                   trace, backup_st, xferVars>>

Next ==
  \/ Construct
  \/ Main
  \/ Run
  \/ Fetch
  \/ Callback
  \/ GetDone
  \/ GetFail
  \/ backup
  \/ BackupCompress
  \/ BackupFetch
  \/ BackupCleanup
  \/ deploy
  \/ RemoteTouch
  \/ __del__

Spec == Init /\ [][Next]_vars

\* ---------------------------------------------------------------- claims
\* C1: once the output stream of a command has ended, _ssh_exec returns
\* normally exactly when the observed exit status is at most the allowance,
\* and otherwise raises the error that carries the command and that status.
C1_ExitCodePolicy ==
  last_call.status # NoStatus =>
    /\ (result.exc = "none") <=> (last_call.status <= last_call.allow)
    /\ last_call.status > last_call.allow =>
         result = [exc |-> "SSHExecException", command |-> last_call.command,
                   status |-> last_call.status]

\* the archive step of backup() ended with status 2 under allowance 1
C1_Witness ==
  /\ last_call.command[1] = "sudo tar cvf"
  /\ last_call.allow = 1
  /\ last_call.status = 2
  /\ result.exc = "SSHExecException"

\* C2: constructing a session succeeds, and a backup() whose four steps all
\* end within their allowances completes without raising.
C2_EndToEndSuccess ==
  /\ hostname # << >> => init_exc = "none"
  /\ (backup_st.step = 4 /\ last_call.command = RmCmd(now_iso8601)
        /\ last_call.status = 0) => backup_st.st = "ok"

\* C3 (as amended): the operations of backup() are a prefix of the fixed four,
\* all built from the one cached timestamp; step i is issued only after steps
\* 1..i-1 succeeded, so the prefix is the full four exactly when none of the
\* first three steps failed, and a step that raised ends backup().
C3_BackupTracePrefix ==
  LET inBackup == \/ pc \in {"compress", "fetch", "cleanup"}
                  \/ (pc = "get" /\ caller = "backup")
  IN
  /\ inBackup => backup_st.st = "running"
  /\ backup_st.st # "none" =>
       /\ IsPrefix(trace, BackupOps(now_iso8601))
       /\ Len(trace) \in {backup_st.step - 1, backup_st.step}
       /\ backup_st.st \in {"running", "ok"} => Len(trace) = backup_st.step
       /\ backup_st.st = "ok" => backup_st.step = 4
       /\ (Len(trace) = 4) <=> (backup_st.step = 4)
       /\ backup_st.st \in {"raised", "ok"} => ~inBackup
       /\ backup_st.st = "running" =>
            /\ inBackup
            /\ pc \in << {"compress"}, {"fetch"}, {"get", "cleanup"} >>[backup_st.step]

\* the archive step returned 2: one operation issued, backup() over
C3_Witness ==
  /\ backup_st = [st |-> "raised", step |-> 1]
  /\ last_call.status = 2
  /\ trace = <<ExecOp(TarCmd(now_iso8601), 1)>>
  /\ pc = "idle"

\* C3 as stated: a finished backup() issued the full four operations exactly
\* when no step failed.
C3_FullExactlyWhenNoFailure ==
  (backup_st.st \in {"ok", "raised"}) =>
    ((Len(trace) = 4) <=> (backup_st.st = "ok"))

\* C4: the path backup() fetches is the file the compress step leaves on the
\* remote host, which exists when the fetch starts.
C4_FetchesCompressedArchive ==
  (pc = "fetch" /\ foreign = {}) =>
    /\ Bz2Path(now_iso8601) \in remote
    /\ BackupOps(now_iso8601)[3].what[2] = Bz2Path(now_iso8601)
    /\ BackupOps(now_iso8601)[3].what[2] \in remote

\* C5: the log file holds the stripped stdout lines of every command executed
\* so far in the session, in execution order.
C5_LogAccumulates ==
  log_file.data = executed

\* C6: in the first transfer of a session, with a positive total, the updates
\* of the tracker sum to the last reported cumulative value, which is the value
\* remembered.
C6_ProgressAccounting ==
  (xfers = 1 /\ xfer.total > 0 /\ xfer.cbs # << >>) =>
    /\ Sum(xfer.updates) = Last(xfer.cbs)
    /\ progress_bar_last = Last(xfer.cbs)

\* C7 (as amended): a connection is established at most once; once a handle
\* is cached every later read returns it and connects no more, and no read
\* happens without a connect having been made.
C7_ConnectOnceEstablished ==
  /\ [](uses > 0 => connects > 0)
  /\ [][ssh_client # NotCached =>
          (ssh_client' = ssh_client /\ connects' = connects)]_vars

\* the handle of the one connect was read again
C7_Witness ==
  /\ ssh_client # NotCached
  /\ connects = 1
  /\ uses >= 2
  /\ pc # "dead"

\* C7 as stated: over run and fetch operations the connect step is performed at
\* most once.
C7_ConnectAtMostOnce ==
  pc # "dead" => connects <= 1

\* C8: a run of the script invokes the operation whose flag was given, and
\* exactly one.
C8_CliSelectsFlaggedOperation ==
  (main.ran /\ main.exc \notin {"SystemExit", "ValueError"}) =>
    /\ MainSelect(argv) = (IF argv.backup THEN "backup" ELSE "deploy")
    /\ main.invoked = (IF argv.backup THEN "backup" ELSE "deploy")

\* C9: teardown closes an established connection exactly once, and never
\* connects: a session without a connection is torn down without one.
C9_TeardownNeverConnects ==
  pc = "dead" =>
    /\ del_connects = 0
    /\ closes = (IF ssh_client # NotCached THEN 1 ELSE 0)

\* C10: when a fetch has completed, the tracker and the remembered cumulative
\* value are both absent, so the first update of a later transfer is its first
\* reported value.
C10_ProgressReset ==
  /\ xfer.done => (progress_bar.state = "None" /\ progress_bar_last = NoAttr)
  /\ (xfers >= 2 /\ xfer.updates # << >>) => xfer.updates[1] = xfer.cbs[1]
====
